---- MODULE Spec2Model ----
(***************************************************************************)
(* A model of the three layers of the hello_world demonstration:           *)
(*   - the kernel attribute driver (hello_world_driver.c): module          *)
(*     initialisation and the sysfs store callback hello_print;            *)
(*   - the HAL method HelloWorld::sayHello (HelloWorld.cpp), run on        *)
(*     binder thread-pool threads, writing to the sysfs file;              *)
(*   - the service daemon's main (service.cpp) and the JNI bridge          *)
(*     sayHelloNative (hello_world_jni.cpp), in both variants the          *)
(*     repository holds.                                                   *)
(* Three specifications share the variables: SpecKernel (module init and   *)
(* one writer handing arbitrary buffers to hello_print), SpecHal           *)
(* (concurrent sayHello calls down to hello_print) and SpecService (the    *)
(* daemon and the bridge).                                                 *)
(***************************************************************************)
EXTENDS Integers, Sequences, FiniteSets, TLC

(***************************************************************************)
(* Program constants                                                       *)
(***************************************************************************)
\* sizeof(tmp): char tmp[128]
TmpSize == 128
\* errno values returned negated by the driver
EINVAL == 22
ENOMEM == 12
\* jboolean values of jni.h
JNI_FALSE == 0
JNI_TRUE == 1
\* The content of a byte of automatic storage that was never written. A read
\* of it is a read of an indeterminate value; the model keeps it apart from
\* every byte value (0..255) so that such a read shows in what was read.
Garbage == 256

(***************************************************************************)
(* Bounds of the model                                                     *)
(***************************************************************************)
\* longest explicit prefix of an input buffer
MaxPat == 2
\* counts 0..MaxShort are tried, and TmpSize-2 .. TmpSize+MaxOver
MaxShort == 3
MaxOver == 1
\* binder thread-pool threads that run sayHello concurrently
NumThreads == 2

Threads == 1..NumThreads
\* the context of the one writer of SpecKernel
Shell == 1

\* byte values: the zero byte and two others
Bytes == {0, 97, 98}
Counts == (0..MaxShort) \cup ((TmpSize - 2)..(TmpSize + MaxOver))

RECURSIVE SeqsUpTo(_, _)
SeqsUpTo(S, n) ==
    IF n = 0 THEN {<<>>}
    ELSE LET shorter == SeqsUpTo(S, n - 1)
         IN  shorter \cup {Append(s, b) : s \in {x \in shorter : Len(x) = n - 1}, b \in S}

Patterns == SeqsUpTo(Bytes, MaxPat)

\* Arrays are sequences: the byte at C index i of array a is a[i + 1]. A
\* local array is kept as the bytes written so far, from index 0 up to the
\* last index written; every byte not written is indeterminate.
At(a, i) == IF i + 1 \in DOMAIN a THEN a[i + 1] ELSE Garbage

Larger(a, b) == IF a >= b THEN a ELSE b
Smaller(a, b) == IF a <= b THEN a ELSE b

\* A buffer of count+1 bytes: the pattern, then the fill byte up to count,
\* then one trailing byte at C index count.
MakeBuf(pat, fill, trail, count) ==
    [k \in 1..(count + 1) |->
        IF k <= Len(pat) /\ k <= count THEN pat[k]
        ELSE IF k <= count THEN fill
        ELSE trail]

NoBuf == <<>>
\* char tmp[128] on entry: nothing written
FreshTmp == <<>>

\* Values that are no status / no integer return value / no log line
NoRet == "none"
NoInt == 2 * Garbage
NoLine == <<Garbage + 1>>

VARIABLES
    \* ---- kernel module (hello_world_driver.c)
    initPc,      \* position in hello_sysfs_init
    hello_kobj,  \* the static pointer: "NULL" or "kobj"
    kobjRef,     \* reference count of the kobject (0: not allocated / freed)
    sysfsFile,   \* /sys/kernel/hello_world/hello exists
    initRet,     \* return value of hello_sysfs_init, NoInt before it returns
    \* ---- hello_print invocations, one per calling context
    hpPc,        \* position in hello_print
    hpBuf,       \* argument buf
    hpCount,     \* argument count
    hpRet,       \* return value, NoInt before it returns
    tmp,         \* the local buffers, by storage slot
    oob,         \* a write outside tmp[0..TmpSize-1] happened
    klog,        \* the "hello_world received" line the invocation emitted
    \* ---- HelloWorld::sayHello calls, one per thread-pool thread
    shPc,        \* position in sayHello
    message,     \* argument message
    fileOpen,    \* file.is_open()
    openErr,     \* the constructor could not open the path
    streamBuf,   \* bytes inserted and not yet handed to write(2)
    failbit,     \* !file
    through,     \* the insertion handed the bytes to write(2) at once
    result,      \* the status returned, NoRet before the call returns
    \* ---- the platform's service directory
    declared,    \* the instance name is declared in the device manifest
    registered,  \* the name is registered and its process serves it
    \* ---- the service daemon's main (service.cpp)
    mainPc,      \* position in main, "none" while no daemon process runs
    mainVariant, \* which of the two service.cpp was built
    poolMaxSet,  \* ABinderProcess_setThreadPoolMaxThreadCount(0) was called
    regStatus,   \* the status of AServiceManager_addService
    joined,      \* ABinderProcess_joinThreadPool was entered by this process
    exitStatus,  \* the exit status of the process, NoInt until it exits
    \* ---- the bridge sayHelloNative (hello_world_jni.cpp)
    brPc,        \* position in the function
    brVariant,   \* which of the two hello_world_jni.cpp was built
    jmsg,        \* argument jmsg
    c_msg,       \* the native string: "unset", "null", "valid" or "released"
    utfHeld,     \* native strings obtained and not yet released
    gets,        \* successful GetStringUTFChars of this call
    rels,        \* ReleaseStringUTFChars of an obtained string in this call
    binder,      \* the looked-up binder: "unset", "null" or "binder"
    service,     \* the cast interface: "unset", "null" or "service"
    status,      \* the status of the sayHello call, NoRet before it returns
    brRet        \* the jboolean returned, NoInt before the function returns

kinitVars == <<initPc, hello_kobj, kobjRef, sysfsFile, initRet>>
hpVars == <<hpPc, hpBuf, hpCount, hpRet, tmp, oob, klog>>
shVars == <<shPc, message, fileOpen, openErr, streamBuf, failbit, through, result>>
dirVars == <<declared, registered>>
mainVars == <<mainPc, mainVariant, poolMaxSet, regStatus, joined, exitStatus>>
brVars == <<brPc, brVariant, jmsg, c_msg, utfHeld, gets, rels, binder, service, status, brRet>>
svcVars == <<dirVars, mainVars, brVars>>
lowVars == <<kinitVars, hpVars, shVars>>
vars == <<kinitVars, hpVars, shVars, svcVars>>

(***************************************************************************)
(* hello_world_driver.c                                                    *)
(***************************************************************************)

\* strncpy(dst, src, n): copies src up to and including its first zero byte
\* within n bytes and fills the rest of the n bytes with zero bytes.
FirstNul(src, n) ==
    LET Z == {i \in 0..(n - 1) : At(src, i) = 0}
    IN  IF Z = {} THEN n ELSE CHOOSE i \in Z : \A j \in Z : i <= j

Strncpy(dst, src, n) ==
    [k \in 1..Larger(Len(dst), Smaller(n, TmpSize)) |->
        IF k - 1 < n THEN (IF k - 1 < FirstNul(src, n) THEN At(src, k - 1) ELSE 0)
        ELSE dst[k]]

\* What printk's %s reads from a buffer: the bytes before the first zero
\* byte. With no zero byte among the bytes written it reads on, into bytes
\* never written or past the array: indeterminate content.
CStr(buf) ==
    IF FirstNul(buf, Len(buf)) < Len(buf)
    THEN SubSeq(buf, 1, FirstNul(buf, Len(buf)))
    ELSE Append(buf, Garbage)

\* (variant) static char tmp[128]: one buffer shared by every invocation
TmpSlotStatic(t) == 1
\* the storage of tmp of the invocation in context t: automatic, one per call
TmpSlot(t) == t

\* (variant) count > sizeof(tmp): lets count = sizeof(tmp) through
HpTooLargeOffByOne(count) == count > TmpSize
\* (variant) count >= sizeof(tmp) - 1: turns a write of sizeof(tmp) - 1 bytes away
HpTooLargeAtMax(count) == count >= TmpSize - 1
\* count >= sizeof(tmp)
HpTooLarge(count) == count >= TmpSize

\* (variant) the terminator is never stored
TerminateMissing(buffer, count) == buffer
\* tmp[count] = '\0'
Terminate(buffer, count) ==
    IF count < TmpSize
    THEN [k \in 1..Larger(Len(buffer), count + 1) |-> IF k = count + 1 THEN 0 ELSE At(buffer, k - 1)]
    ELSE buffer

\* (variant) the failure path keeps the reference
KobjectPutMissing(ref) == ref
\* kobject_put on the only reference
KobjectPut(ref) == ref - 1

\* The kernel calls the store callback: a fresh frame.
HpCall(t, buf, count) ==
    /\ hpPc' = [hpPc EXCEPT ![t] = "entry"]
    /\ hpBuf' = [hpBuf EXCEPT ![t] = buf]
    /\ hpCount' = [hpCount EXCEPT ![t] = count]
    /\ hpRet' = [hpRet EXCEPT ![t] = NoInt]
    /\ tmp' = [tmp EXCEPT ![TmpSlot(t)] = FreshTmp]
    /\ klog' = [klog EXCEPT ![t] = NoLine]
    /\ oob' = [oob EXCEPT ![t] = FALSE]

\* The callback's caller has taken the return value: the frame is gone.
HpLeave(t) ==
    /\ hpPc' = [hpPc EXCEPT ![t] = "idle"]
    /\ hpBuf' = [hpBuf EXCEPT ![t] = NoBuf]
    /\ hpCount' = [hpCount EXCEPT ![t] = 0]
    /\ hpRet' = [hpRet EXCEPT ![t] = NoInt]
    /\ tmp' = [tmp EXCEPT ![TmpSlot(t)] = FreshTmp]
    /\ klog' = [klog EXCEPT ![t] = NoLine]
    /\ oob' = [oob EXCEPT ![t] = FALSE]

\* lines 26-29: the bound check
HpCheck(t) ==
    /\ hpPc[t] = "entry"
    /\ IF HpTooLarge(hpCount[t])
       THEN /\ hpRet' = [hpRet EXCEPT ![t] = -EINVAL]
            /\ hpPc' = [hpPc EXCEPT ![t] = "ret"]
       ELSE /\ hpPc' = [hpPc EXCEPT ![t] = "copy"]
            /\ UNCHANGED hpRet
    /\ UNCHANGED <<hpBuf, hpCount, tmp, oob, klog>>

\* line 31: strncpy(tmp, buf, count)
HpCopy(t) ==
    /\ hpPc[t] = "copy"
    /\ tmp' = [tmp EXCEPT ![TmpSlot(t)] = Strncpy(@, hpBuf[t], hpCount[t])]
    /\ oob' = [oob EXCEPT ![t] = @ \/ hpCount[t] > TmpSize]
    /\ hpPc' = [hpPc EXCEPT ![t] = "term"]
    /\ UNCHANGED <<hpBuf, hpCount, hpRet, klog>>

\* line 32: tmp[count] = '\0'
HpTerminate(t) ==
    /\ hpPc[t] = "term"
    /\ tmp' = [tmp EXCEPT ![TmpSlot(t)] = Terminate(@, hpCount[t])]
    /\ oob' = [oob EXCEPT ![t] = @ \/ hpCount[t] \notin 0..(TmpSize - 1)]
    /\ hpPc' = [hpPc EXCEPT ![t] = "log"]
    /\ UNCHANGED <<hpBuf, hpCount, hpRet, klog>>

\* lines 34-36: pr_info("hello_world received: %s\n", tmp); return count
HpLog(t) ==
    /\ hpPc[t] = "log"
    /\ klog' = [klog EXCEPT ![t] = CStr(tmp[TmpSlot(t)])]
    /\ hpRet' = [hpRet EXCEPT ![t] = hpCount[t]]
    /\ hpPc' = [hpPc EXCEPT ![t] = "ret"]
    /\ UNCHANGED <<hpBuf, hpCount, tmp, oob>>

HelloPrint(t) == HpCheck(t) \/ HpCopy(t) \/ HpTerminate(t) \/ HpLog(t)

\* hello_sysfs_init, line 57: kobject_create_and_add
InitCreateKobj ==
    /\ initPc = "start"
    /\ \E ok \in BOOLEAN :
          IF ok
          THEN /\ hello_kobj' = "kobj"
               /\ kobjRef' = 1
               /\ initPc' = "create_file"
               /\ UNCHANGED initRet
          ELSE \* lines 58-61
               /\ hello_kobj' = "NULL"
               /\ initRet' = -ENOMEM
               /\ initPc' = "done"
               /\ UNCHANGED kobjRef
    /\ UNCHANGED <<sysfsFile, hpVars, shVars, svcVars>>

\* lines 63-72: sysfs_create_file, kobject_put on failure, return retval
InitCreateFile ==
    /\ initPc = "create_file"
    /\ \E retval \in {0, -ENOMEM, -EINVAL} :
          /\ IF retval # 0
             THEN /\ kobjRef' = KobjectPut(kobjRef)
                  /\ UNCHANGED sysfsFile
             ELSE /\ sysfsFile' = TRUE
                  /\ UNCHANGED kobjRef
          /\ initRet' = retval
    /\ initPc' = "done"
    /\ UNCHANGED <<hello_kobj, hpVars, shVars, svcVars>>

(***************************************************************************)
(* SpecKernel: the module loads, then one privileged writer hands buffers  *)
(* to the store callback.                                                  *)
(***************************************************************************)
InitBase ==
    /\ initPc = "start"
    /\ hello_kobj = "NULL"
    /\ kobjRef = 0
    /\ sysfsFile = FALSE
    /\ initRet = NoInt
    /\ hpPc = [t \in Threads |-> "idle"]
    /\ hpBuf = [t \in Threads |-> NoBuf]
    /\ hpCount = [t \in Threads |-> 0]
    /\ hpRet = [t \in Threads |-> NoInt]
    /\ tmp = [t \in Threads |-> FreshTmp]
    /\ oob = [t \in Threads |-> FALSE]
    /\ klog = [t \in Threads |-> NoLine]
    /\ shPc = [t \in Threads |-> "idle"]
    /\ message = [t \in Threads |-> <<>>]
    /\ fileOpen = [t \in Threads |-> FALSE]
    /\ openErr = [t \in Threads |-> FALSE]
    /\ streamBuf = [t \in Threads |-> <<>>]
    /\ failbit = [t \in Threads |-> FALSE]
    /\ through = [t \in Threads |-> FALSE]
    /\ result = [t \in Threads |-> NoRet]
    /\ registered = FALSE
    /\ mainPc = "none"
    /\ mainVariant = "interfaces"
    /\ poolMaxSet = FALSE
    /\ regStatus = NoRet
    /\ joined = FALSE
    /\ exitStatus = NoInt
    /\ brPc = "idle"
    /\ brVariant = "apps"
    /\ jmsg = <<>>
    /\ c_msg = "unset"
    /\ utfHeld = 0
    /\ gets = 0
    /\ rels = 0
    /\ binder = "unset"
    /\ service = "unset"
    /\ status = NoRet
    /\ brRet = NoInt

InitAll == InitBase /\ declared = TRUE

\* write(2) on the attribute by the shell: the file must exist
ShellWrite ==
    /\ sysfsFile
    /\ hpPc[Shell] = "idle"
    /\ \E pat \in Patterns, fill \in Bytes, trail \in Bytes, count \in Counts :
          HpCall(Shell, MakeBuf(pat, fill, trail, count), count)
    /\ UNCHANGED <<svcVars, kinitVars, shVars>>

ShellStore == HelloPrint(Shell) /\ UNCHANGED <<svcVars, kinitVars, shVars>>

\* write(2) returns to the shell
ShellReturn ==
    /\ hpPc[Shell] = "ret"
    /\ HpLeave(Shell)
    /\ UNCHANGED <<svcVars, kinitVars, shVars>>

NextKernel ==
    InitCreateKobj \/ InitCreateFile \/ ShellWrite \/ ShellStore \/ ShellReturn

SpecKernel == InitAll /\ [][NextKernel]_vars

(***************************************************************************)
(* HelloWorld.cpp: HelloWorld::sayHello, one call per thread at a time     *)
(***************************************************************************)
\* the messages the calls carry: a short one, a longer one with a zero byte
\* inside, and one of sizeof(tmp) bytes
HalMsgs ==
    { <<97>>, <<98, 0, 98>>, [i \in 1..TmpSize |-> 97] }

\* What the store callback receives for a write(2) of the bytes s: the
\* kernel's copy of them, with a zero byte behind.
KernfsBuf(s) == Append(s, 0)

\* line 8: std::ofstream file("/sys/kernel/hello_world/hello"). The module's
\* initcall has returned before any process runs. The open succeeds when the
\* file exists and the process is permitted to write it (mode 0200).
ShOpen(t) ==
    /\ initPc = "done"
    /\ shPc[t] = "idle"
    /\ \E m \in HalMsgs, permitted \in BOOLEAN :
          /\ message' = [message EXCEPT ![t] = m]
          /\ fileOpen' = [fileOpen EXCEPT ![t] = sysfsFile /\ permitted]
          /\ openErr' = [openErr EXCEPT ![t] = ~(sysfsFile /\ permitted)]
          /\ failbit' = [failbit EXCEPT ![t] = ~(sysfsFile /\ permitted)]
    /\ streamBuf' = [streamBuf EXCEPT ![t] = <<>>]
    /\ through' = [through EXCEPT ![t] = FALSE]
    /\ result' = [result EXCEPT ![t] = NoRet]
    /\ shPc' = [shPc EXCEPT ![t] = "check_open"]
    /\ UNCHANGED <<svcVars, kinitVars, hpVars>>

\* (variant) the open failure is reported as success
ShOpenFailedReturnsOk(t) ==
    /\ shPc[t] = "check_open"
    /\ ~fileOpen[t]
    /\ result' = [result EXCEPT ![t] = "ok"]
    /\ shPc' = [shPc EXCEPT ![t] = "done"]
    /\ UNCHANGED <<svcVars, kinitVars, hpVars, message, fileOpen, openErr, streamBuf, failbit, through>>

\* lines 9-12: if (!file.is_open()) return EX_ILLEGAL_STATE
ShOpenFailed(t) ==
    /\ shPc[t] = "check_open"
    /\ ~fileOpen[t]
    /\ result' = [result EXCEPT ![t] = "EX_ILLEGAL_STATE"]
    /\ shPc' = [shPc EXCEPT ![t] = "done"]
    /\ UNCHANGED <<svcVars, kinitVars, hpVars, message, fileOpen, openErr, streamBuf, failbit, through>>

\* line 14: file << message, the bytes staying in the stream's buffer
ShInsertBuffered(t) ==
    /\ shPc[t] = "check_open"
    /\ fileOpen[t]
    /\ streamBuf' = [streamBuf EXCEPT ![t] = message[t]]
    /\ shPc' = [shPc EXCEPT ![t] = "check_write"]
    /\ UNCHANGED <<svcVars, kinitVars, hpVars, message, fileOpen, openErr, failbit, through, result>>

\* line 14: file << message, the stream handing the bytes to write(2) at
\* once (when the stream does so is left to the library)
ShInsertThrough(t) ==
    /\ shPc[t] = "check_open"
    /\ fileOpen[t]
    /\ through' = [through EXCEPT ![t] = TRUE]
    /\ shPc' = [shPc EXCEPT ![t] = "inserting"]
    /\ HpCall(t, KernfsBuf(message[t]), Len(message[t]))
    /\ UNCHANGED <<svcVars, kinitVars, message, fileOpen, openErr, streamBuf, failbit, result>>

\* write(2) returned to the insertion: a failure sets the stream's badbit
ShInsertDone(t) ==
    /\ shPc[t] = "inserting"
    /\ hpPc[t] = "ret"
    /\ failbit' = [failbit EXCEPT ![t] = hpRet[t] < 0]
    /\ shPc' = [shPc EXCEPT ![t] = "check_write"]
    /\ UNCHANGED <<svcVars, kinitVars, hpVars, message, fileOpen, openErr, streamBuf, through, result>>

\* lines 15-18: if (!file) return EX_ILLEGAL_STATE
ShWriteFailed(t) ==
    /\ shPc[t] = "check_write"
    /\ failbit[t]
    /\ result' = [result EXCEPT ![t] = "EX_ILLEGAL_STATE"]
    /\ shPc' = [shPc EXCEPT ![t] = "done"]
    /\ UNCHANGED <<svcVars, kinitVars, hpVars, message, fileOpen, openErr, streamBuf, failbit, through>>

\* line 20: file.close() with bytes still in the buffer: they go to write(2)
ShCloseFlush(t) ==
    /\ shPc[t] = "check_write"
    /\ ~failbit[t]
    /\ streamBuf[t] # <<>>
    /\ shPc' = [shPc EXCEPT ![t] = "closing"]
    /\ HpCall(t, KernfsBuf(streamBuf[t]), Len(streamBuf[t]))
    /\ UNCHANGED <<svcVars, kinitVars, message, fileOpen, openErr, streamBuf, failbit, through, result>>

\* lines 20-22, nothing left to flush: close, log, return ok()
ShCloseEmpty(t) ==
    /\ shPc[t] = "check_write"
    /\ ~failbit[t]
    /\ streamBuf[t] = <<>>
    /\ fileOpen' = [fileOpen EXCEPT ![t] = FALSE]
    /\ result' = [result EXCEPT ![t] = "ok"]
    /\ shPc' = [shPc EXCEPT ![t] = "done"]
    /\ UNCHANGED <<svcVars, kinitVars, hpVars, message, openErr, streamBuf, failbit, through>>

\* lines 20-22: the flush of close() returned; close() records a failure in
\* the stream state, which is not looked at again; log, return ok()
ShCloseDone(t) ==
    /\ shPc[t] = "closing"
    /\ hpPc[t] = "ret"
    /\ failbit' = [failbit EXCEPT ![t] = hpRet[t] < 0]
    /\ streamBuf' = [streamBuf EXCEPT ![t] = <<>>]
    /\ fileOpen' = [fileOpen EXCEPT ![t] = FALSE]
    /\ result' = [result EXCEPT ![t] = "ok"]
    /\ shPc' = [shPc EXCEPT ![t] = "done"]
    /\ UNCHANGED <<svcVars, kinitVars, hpVars, message, openErr, through>>

\* the status has gone back to the caller: the thread is free for the next
\* call, the call's locals are gone
ShReturn(t) ==
    /\ shPc[t] = "done"
    /\ shPc' = [shPc EXCEPT ![t] = "idle"]
    /\ message' = [message EXCEPT ![t] = <<>>]
    /\ fileOpen' = [fileOpen EXCEPT ![t] = FALSE]
    /\ openErr' = [openErr EXCEPT ![t] = FALSE]
    /\ streamBuf' = [streamBuf EXCEPT ![t] = <<>>]
    /\ failbit' = [failbit EXCEPT ![t] = FALSE]
    /\ through' = [through EXCEPT ![t] = FALSE]
    /\ result' = [result EXCEPT ![t] = NoRet]
    /\ HpLeave(t)
    /\ UNCHANGED <<svcVars, kinitVars>>

\* the store callback running for the write(2) of thread t
HalStore(t) ==
    /\ shPc[t] \in {"inserting", "closing"}
    /\ HelloPrint(t)
    /\ UNCHANGED <<svcVars, kinitVars, shVars>>

(***************************************************************************)
(* SpecHal: the module loads, then the thread-pool threads run sayHello    *)
(* concurrently.                                                           *)
(***************************************************************************)
NextHal ==
    \/ InitCreateKobj
    \/ InitCreateFile
    \/ \E t \in Threads :
          \/ ShOpen(t)
          \/ ShOpenFailed(t)
          \/ ShInsertBuffered(t)
          \/ ShInsertThrough(t)
          \/ ShInsertDone(t)
          \/ ShWriteFailed(t)
          \/ ShCloseFlush(t)
          \/ ShCloseEmpty(t)
          \/ ShCloseDone(t)
          \/ ShReturn(t)
          \/ HalStore(t)

SpecHal == InitAll /\ [][NextHal]_vars

(***************************************************************************)
(* service.cpp: main of the HAL daemon                                     *)
(***************************************************************************)
\* what AServiceManager_addService may answer
AddServiceFailures ==
    {"STATUS_ALREADY_EXISTS", "STATUS_BAD_VALUE", "STATUS_PERMISSION_DENIED"}

\* the exit status a process leaves for the value main returns: its low 8 bits
ExitStatusOf(ret) == ret % 256

\* (variant) the status of the registration is not looked at
RegistrationFailedIgnored(st) == FALSE
\* status != STATUS_OK
RegistrationFailed(st) == st # "STATUS_OK"

\* The supervisor starts the daemon. The vendor build first calls
\* ABinderProcess_setThreadPoolMaxThreadCount(0).
MainStart ==
    /\ mainPc \in {"none", "exited"}
    /\ \E v \in {"interfaces", "vendor"} :
          /\ mainVariant' = v
          /\ poolMaxSet' = (v = "vendor")
    /\ mainPc' = "make"
    /\ regStatus' = NoRet
    /\ joined' = FALSE
    /\ exitStatus' = NoInt
    /\ UNCHANGED <<lowVars, dirVars, brVars>>

\* ndk::SharedRefBase::make<HelloWorld>() and the instance name
MainMake ==
    /\ mainPc = "make"
    /\ mainPc' = "add"
    /\ UNCHANGED <<lowVars, dirVars, brVars, mainVariant, poolMaxSet, regStatus, joined, exitStatus>>

\* AServiceManager_addService: it can succeed only for a declared name that
\* no live process holds
MainAddService ==
    /\ mainPc = "add"
    /\ \E st \in AddServiceFailures \cup {"STATUS_OK"} :
          /\ (st = "STATUS_OK") => (declared /\ ~registered)
          /\ regStatus' = st
          /\ registered' = (registered \/ st = "STATUS_OK")
    /\ mainPc' = "check"
    /\ UNCHANGED <<lowVars, declared, brVars, mainVariant, poolMaxSet, joined, exitStatus>>

\* if (status != STATUS_OK) return -1
MainRegFailed ==
    /\ mainPc = "check"
    /\ RegistrationFailed(regStatus)
    /\ exitStatus' = ExitStatusOf(-1)
    /\ mainPc' = "exited"
    /\ UNCHANGED <<lowVars, dirVars, brVars, mainVariant, poolMaxSet, regStatus, joined>>

\* ABinderProcess_joinThreadPool()
MainJoin ==
    /\ mainPc = "check"
    /\ ~RegistrationFailed(regStatus)
    /\ joined' = TRUE
    /\ mainPc' = "serving"
    /\ UNCHANGED <<lowVars, dirVars, brVars, mainVariant, poolMaxSet, regStatus, exitStatus>>

\* joinThreadPool came back: return 0. The directory drops the name of a
\* process that is gone.
MainJoinReturns ==
    /\ mainPc = "serving"
    /\ exitStatus' = ExitStatusOf(0)
    /\ registered' = FALSE
    /\ mainPc' = "exited"
    /\ UNCHANGED <<lowVars, declared, brVars, mainVariant, poolMaxSet, regStatus, joined>>

(***************************************************************************)
(* hello_world_jni.cpp: sayHelloNative                                     *)
(***************************************************************************)
JStrings == { <<>>, <<104, 105>> }

\* jboolean is an unsigned 8-bit type
ToJboolean(v) == v % 256

\* env->ReleaseStringUTFChars(jmsg, c_msg); a null c_msg holds nothing
ReleaseUtf ==
    /\ c_msg' = IF c_msg = "null" THEN "null" ELSE "released"
    /\ utfHeld' = IF c_msg = "valid" THEN utfHeld - 1 ELSE utfHeld
    /\ rels' = IF c_msg = "null" THEN rels ELSE rels + 1

BrEnter ==
    /\ brPc = "idle"
    /\ \E v \in {"apps", "vendor"}, s \in JStrings :
          /\ brVariant' = v
          /\ jmsg' = s
          /\ brPc' = IF v = "vendor" THEN "is_declared" ELSE "get_utf"
    /\ UNCHANGED <<lowVars, dirVars, mainVars, c_msg, utfHeld, gets, rels, binder, service, status, brRet>>

\* vendor lines 29-32: if (!AServiceManager_isDeclared(...)) return -1
BrNotDeclared ==
    /\ brPc = "is_declared"
    /\ ~declared
    /\ brRet' = ToJboolean(-1)
    /\ brPc' = "returned"
    /\ UNCHANGED <<lowVars, dirVars, mainVars, brVariant, jmsg, c_msg, utfHeld, gets, rels, binder, service, status>>

BrDeclared ==
    /\ brPc = "is_declared"
    /\ declared
    /\ brPc' = "get_utf"
    /\ UNCHANGED <<lowVars, dirVars, mainVars, brVariant, jmsg, c_msg, utfHeld, gets, rels, binder, service, status, brRet>>

\* GetStringUTFChars: a native copy, or null when it cannot be made
BrGetUtf ==
    /\ brPc = "get_utf"
    /\ \E ok \in BOOLEAN :
          /\ c_msg' = IF ok THEN "valid" ELSE "null"
          /\ utfHeld' = IF ok THEN utfHeld + 1 ELSE utfHeld
          /\ gets' = IF ok THEN gets + 1 ELSE gets
    /\ brPc' = IF brVariant = "vendor" THEN "check_utf" ELSE "get_service"
    /\ UNCHANGED <<lowVars, dirVars, mainVars, brVariant, jmsg, rels, binder, service, status, brRet>>

\* vendor lines 35-38: if (!c_msg) return JNI_FALSE
BrUtfFailed ==
    /\ brPc = "check_utf"
    /\ c_msg = "null"
    /\ brRet' = JNI_FALSE
    /\ brPc' = "returned"
    /\ UNCHANGED <<lowVars, dirVars, mainVars, brVariant, jmsg, c_msg, utfHeld, gets, rels, binder, service, status>>

BrUtfOk ==
    /\ brPc = "check_utf"
    /\ c_msg # "null"
    /\ brPc' = "get_service"
    /\ UNCHANGED <<lowVars, dirVars, mainVars, brVariant, jmsg, c_msg, utfHeld, gets, rels, binder, service, status, brRet>>

\* AServiceManager_getService: a binder only for a registered name, and not
\* always then (the lookup can be refused)
BrGetService ==
    /\ brPc = "get_service"
    /\ \E found \in BOOLEAN :
          binder' = IF registered /\ found THEN "binder" ELSE "null"
    /\ brPc' = "check_binder"
    /\ UNCHANGED <<lowVars, dirVars, mainVars, brVariant, jmsg, c_msg, utfHeld, gets, rels, service, status, brRet>>

\* if (!binder.get()) { release; return JNI_FALSE; }
BrServiceNotFound ==
    /\ brPc = "check_binder"
    /\ binder = "null"
    /\ ReleaseUtf
    /\ brRet' = JNI_FALSE
    /\ brPc' = "returned"
    /\ UNCHANGED <<lowVars, dirVars, mainVars, brVariant, jmsg, gets, binder, service, status>>

\* IHelloWorld::fromBinder(binder): null for a binder of another interface
BrFromBinder ==
    /\ brPc = "check_binder"
    /\ binder = "binder"
    /\ \E castOk \in BOOLEAN :
          service' = IF castOk THEN "service" ELSE "null"
    /\ brPc' = "check_service"
    /\ UNCHANGED <<lowVars, dirVars, mainVars, brVariant, jmsg, c_msg, utfHeld, gets, rels, binder, status, brRet>>

\* (variant) the cast-failure exit forgets the release
BrCastFailedLeaks ==
    /\ brPc = "check_service"
    /\ service = "null"
    /\ brRet' = JNI_FALSE
    /\ brPc' = "returned"
    /\ UNCHANGED <<lowVars, dirVars, mainVars, brVariant, jmsg, c_msg, utfHeld, gets, rels, binder, service, status>>

\* if (service == nullptr) { release; return JNI_FALSE; }
BrCastFailed ==
    /\ brPc = "check_service"
    /\ service = "null"
    /\ ReleaseUtf
    /\ brRet' = JNI_FALSE
    /\ brPc' = "returned"
    /\ UNCHANGED <<lowVars, dirVars, mainVars, brVariant, jmsg, gets, binder, service, status>>

\* service->sayHello(c_msg): the std::string is built from c_msg and the
\* transaction is sent. Building it from a null pointer (the apps build does
\* not test c_msg) is undefined: the process dies, or goes on with an empty
\* string.
BrCall ==
    /\ brPc = "check_service"
    /\ service = "service"
    /\ IF c_msg = "null"
       THEN \E dies \in BOOLEAN : brPc' = IF dies THEN "crashed" ELSE "in_rpc"
       ELSE brPc' = "in_rpc"
    /\ UNCHANGED <<lowVars, dirVars, mainVars, brVariant, jmsg, c_msg, utfHeld, gets, rels, binder, service, status, brRet>>

\* The call returns: the remote sayHello answers while the daemon serves;
\* the transaction can fail at any time.
BrRpcReturn ==
    /\ brPc = "in_rpc"
    /\ \E st \in {"ok", "EX_ILLEGAL_STATE", "EX_TRANSACTION_FAILED"} :
          /\ (st # "EX_TRANSACTION_FAILED") => mainPc = "serving"
          /\ status' = st
    /\ brPc' = "release"
    /\ UNCHANGED <<lowVars, dirVars, mainVars, brVariant, jmsg, c_msg, utfHeld, gets, rels, binder, service, brRet>>

\* env->ReleaseStringUTFChars(jmsg, c_msg) after the call
BrRelease ==
    /\ brPc = "release"
    /\ ReleaseUtf
    /\ brPc' = "check_status"
    /\ UNCHANGED <<lowVars, dirVars, mainVars, brVariant, jmsg, gets, binder, service, status, brRet>>

\* if (!status.isOk()) return JNI_FALSE
BrCallFailed ==
    /\ brPc = "check_status"
    /\ status # "ok"
    /\ brRet' = JNI_FALSE
    /\ brPc' = "returned"
    /\ UNCHANGED <<lowVars, dirVars, mainVars, brVariant, jmsg, c_msg, utfHeld, gets, rels, binder, service, status>>

\* return JNI_TRUE
BrSuccess ==
    /\ brPc = "check_status"
    /\ status = "ok"
    /\ brRet' = JNI_TRUE
    /\ brPc' = "returned"
    /\ UNCHANGED <<lowVars, dirVars, mainVars, brVariant, jmsg, c_msg, utfHeld, gets, rels, binder, service, status>>

\* the Java caller has the result (or the application was restarted after
\* it died): the next call starts from scratch
BrLeave ==
    /\ brPc \in {"returned", "crashed"}
    /\ brPc' = "idle"
    /\ jmsg' = <<>>
    /\ c_msg' = "unset"
    /\ utfHeld' = 0
    /\ gets' = 0
    /\ rels' = 0
    /\ binder' = "unset"
    /\ service' = "unset"
    /\ status' = NoRet
    /\ brRet' = NoInt
    /\ UNCHANGED <<lowVars, dirVars, mainVars, brVariant>>

(***************************************************************************)
(* SpecService: the daemon is started (and restarted) by its supervisor    *)
(* while an application calls the bridge.                                  *)
(***************************************************************************)
InitService == InitBase /\ declared \in BOOLEAN

NextService ==
    \/ MainStart
    \/ MainMake
    \/ MainAddService
    \/ MainRegFailed
    \/ MainJoin
    \/ MainJoinReturns
    \/ BrEnter
    \/ BrNotDeclared
    \/ BrDeclared
    \/ BrGetUtf
    \/ BrUtfFailed
    \/ BrUtfOk
    \/ BrGetService
    \/ BrServiceNotFound
    \/ BrFromBinder
    \/ BrCastFailed
    \/ BrCall
    \/ BrRpcReturn
    \/ BrRelease
    \/ BrCallFailed
    \/ BrSuccess
    \/ BrLeave

SpecService == InitService /\ [][NextService]_vars

(***************************************************************************)
(* Claims about the kernel driver, checked under SpecKernel                *)
(***************************************************************************)
Returned(t) == hpPc[t] = "ret"
Active(t) == hpPc[t] # "idle"

\* C1: a write with count >= 128 returns -EINVAL, leaves tmp untouched and
\* emits no "hello_world received" line; and for no count at all is a byte
\* outside tmp[0..127] written.
C1_TooLargeRejected ==
    \A t \in Threads :
        /\ ~oob[t]
        /\ (Active(t) /\ hpCount[t] >= TmpSize) =>
              /\ hpPc[t] \in {"entry", "ret"}
              /\ tmp[t] = FreshTmp
              /\ klog[t] = NoLine
              /\ Returned(t) => hpRet[t] = -EINVAL

C1_Witness ==
    /\ Returned(Shell)
    /\ hpCount[Shell] = TmpSize
    /\ hpRet[Shell] = -EINVAL

\* C2 as stated: every write of 127 bytes or more is rejected and logs
\* nothing.
C2_Original ==
    \A t \in Threads :
        (Returned(t) /\ hpCount[t] >= 127) =>
            /\ hpRet[t] < 0
            /\ klog[t] = NoLine

\* C2 amended: a write is rejected (-EINVAL, nothing logged) exactly when its
\* size is 128 bytes or more; a write of exactly 127 bytes is accepted, it
\* returns 127 and is logged.
C2_RejectedFrom128 ==
    \A t \in Threads :
        Returned(t) =>
            /\ (hpCount[t] >= 128) <=> (hpRet[t] = -EINVAL)
            /\ (hpCount[t] >= 128) <=> (klog[t] = NoLine)
            /\ (hpCount[t] = 127) => (hpRet[t] = 127)

C2_Witness ==
    /\ Returned(Shell)
    /\ hpCount[Shell] = 127
    /\ hpRet[Shell] = 127
    /\ Len(klog[Shell]) = 127

\* the bytes of a string that precede its first zero byte
UpToNul(s) ==
    IF \E i \in 1..Len(s) : s[i] = 0
    THEN SubSeq(s, 1, (CHOOSE i \in 1..Len(s) : s[i] = 0 /\ \A j \in 1..(i - 1) : s[j] # 0) - 1)
    ELSE s

\* the first count bytes of buf, as a string
FirstBytes(buf, count) == [k \in 1..count |-> buf[k]]

\* s is the part of the first count bytes of buf that precedes their first
\* zero byte (all of them when none is zero)
IsCPrefix(s, buf, count) ==
    /\ Len(s) <= count
    /\ \A k \in 1..Len(s) : s[k] = buf[k] /\ s[k] # 0
    /\ Len(s) < count => At(buf, Len(s)) = 0

\* C3 as stated: for count < 127 the write is accepted, returns count, all
\* count bytes of the input are copied into tmp, also when a zero byte is
\* among them, the terminator follows them, and the line logged is those
\* count bytes and the terminator as %s prints them.
C3_Original ==
    \A t \in Threads :
        (Returned(t) /\ hpCount[t] < 127) =>
            /\ hpRet[t] = hpCount[t]
            /\ \A i \in 0..(hpCount[t] - 1) : At(tmp[t], i) = At(hpBuf[t], i)
            /\ At(tmp[t], hpCount[t]) = 0
            /\ klog[t] = UpToNul(FirstBytes(hpBuf[t], hpCount[t]))

\* C3 amended: for count < 127 the write is accepted and returns count; tmp
\* holds the input bytes up to the first zero byte among the first count,
\* zero bytes from there up to and including position count; the logged
\* string is the input up to that first zero byte (all count bytes when none
\* of them is zero), and no byte at or beyond position count is in it.
C3_CopiesCString ==
    \A t \in Threads :
        (Returned(t) /\ hpCount[t] < 127) =>
            /\ hpRet[t] = hpCount[t]
            /\ \A i \in 0..(hpCount[t] - 1) :
                  At(tmp[t], i) =
                      IF \E j \in 0..i : At(hpBuf[t], j) = 0 THEN 0 ELSE At(hpBuf[t], i)
            /\ At(tmp[t], hpCount[t]) = 0
            /\ IsCPrefix(klog[t], hpBuf[t], hpCount[t])
            /\ (\A i \in 0..(hpCount[t] - 1) : At(hpBuf[t], i) # 0) =>
                  klog[t] = FirstBytes(hpBuf[t], hpCount[t])

\* an accepted write with a zero byte followed by another byte before count,
\* and a non-zero byte at position count
C3_Witness ==
    /\ Returned(Shell)
    /\ hpCount[Shell] = 2
    /\ At(hpBuf[Shell], 0) = 0
    /\ At(hpBuf[Shell], 1) # 0
    /\ At(hpBuf[Shell], 2) # 0
    /\ klog[Shell] = <<>>

\* C9: hello_sysfs_init returns 0 only with the kobject and its file both in
\* place; when the kobject or the file cannot be created it returns a
\* negative value, no file exists and the kobject is released (no reference
\* to it is held).
C9_InitAllOrNothing ==
    initPc = "done" =>
        /\ initRet <= 0
        /\ (initRet = 0) <=> (kobjRef = 1 /\ sysfsFile /\ hello_kobj = "kobj")
        /\ (initRet < 0) => (kobjRef = 0 /\ ~sysfsFile)

\* the file could not be created after the kobject was
C9_Witness ==
    /\ initPc = "done"
    /\ initRet < 0
    /\ hello_kobj = "kobj"
    /\ kobjRef = 0

(***************************************************************************)
(* Claims about HelloWorld::sayHello, checked under SpecHal                *)
(***************************************************************************)
Done(t) == shPc[t] = "done"

\* C4: sayHello returns ok only when the whole message was written to the
\* sysfs file (the store callback took all its bytes), and whenever the
\* write to the opened file fails it returns EX_ILLEGAL_STATE.
C4_OkOnlyWhenWritten ==
    \A t \in Threads :
        Done(t) =>
            /\ (result[t] = "ok") =>
                  /\ hpPc[t] = "ret"
                  /\ hpRet[t] = Len(message[t])
            /\ (hpPc[t] = "ret" /\ hpRet[t] < 0) => result[t] = "EX_ILLEGAL_STATE"

\* C5: when the path cannot be opened, sayHello returns EX_ILLEGAL_STATE
\* whatever the message, and the store callback is not invoked for the call:
\* no byte of the message reaches the file.
C5_OpenFailureWritesNothing ==
    \A t \in Threads :
        openErr[t] =>
            /\ shPc[t] \in {"check_open", "done"}
            /\ hpPc[t] = "idle"
            /\ klog[t] = NoLine
            /\ streamBuf[t] = <<>>
            /\ Done(t) => result[t] = "EX_ILLEGAL_STATE"

\* the file exists and the open was refused all the same
C5_Witness ==
    \E t \in Threads :
        /\ Done(t)
        /\ openErr[t]
        /\ sysfsFile
        /\ Len(message[t]) = TmpSize
        /\ result[t] = "EX_ILLEGAL_STATE"

\* C10: whatever the interleaving of the calls and of the store callbacks
\* they cause, what a call observes is decided by the call alone: the store
\* callback returns what the call's own message length decides, the line it
\* logs is the call's own message (up to a zero byte inside it), never bytes
\* of another call's message, and the status returned is decided by whether
\* the call's own open succeeded and its own write was seen to fail.
C10_CallsIndependent ==
    \A t \in Threads :
        /\ (hpPc[t] = "ret") =>
              hpRet[t] = IF Len(message[t]) >= TmpSize THEN -EINVAL ELSE Len(message[t])
        /\ (klog[t] # NoLine) =>
              /\ klog[t] = UpToNul(message[t])
              /\ (\A i \in 1..Len(message[t]) : message[t][i] # 0) => klog[t] = message[t]
        /\ (hpPc[t] = "ret" /\ hpRet[t] >= 0) => klog[t] # NoLine
        /\ Done(t) =>
              result[t] = IF openErr[t] \/ (through[t] /\ Len(message[t]) >= TmpSize)
                          THEN "EX_ILLEGAL_STATE" ELSE "ok"

\* two store callbacks under way at once for different messages, one between
\* its copy and its terminator, the other about to log
C10_Witness ==
    /\ hpPc[1] = "term"
    /\ hpPc[2] = "log"
    /\ message[1] # message[2]

(***************************************************************************)
(* Claims about the daemon and the bridge, checked under SpecService       *)
(***************************************************************************)
\* the named service was absent for this call of the bridge: not declared,
\* or the lookup gave no binder
ServiceAbsent == ~declared \/ binder = "null"

\* C6: the bridge returns JNI_FALSE whenever the named service is absent,
\* whatever the string; every failure exit returns JNI_FALSE, and JNI_TRUE
\* is returned only when the sayHello call returned ok.
C6_FailureIsJniFalse ==
    brPc = "returned" =>
        /\ ServiceAbsent => brRet = JNI_FALSE
        /\ brRet \in {JNI_FALSE, JNI_TRUE}
        /\ (brRet = JNI_TRUE) <=> (status = "ok")

\* C7: every native string obtained is released exactly once before the
\* function returns, and not before the sayHello call that reads it has
\* returned.
C7_StringReleasedOnce ==
    /\ utfHeld = gets - rels
    /\ rels <= gets
    /\ gets <= 1
    /\ (brPc = "returned") => (utfHeld = 0 /\ rels = gets)
    /\ (brPc = "in_rpc" /\ gets = 1) => (utfHeld = 1 /\ c_msg = "valid")

\* the function returned through the cast-failure exit with a string obtained
C7_Witness ==
    /\ brPc = "returned"
    /\ service = "null"
    /\ gets = 1
    /\ rels = 1

\* C8: when the registration fails, main returns a non-zero exit status and
\* ABinderProcess_joinThreadPool is never entered; it is entered only after
\* a successful registration.
C8_NoServingWithoutRegistration ==
    /\ joined => regStatus = "STATUS_OK"
    /\ (mainPc = "serving") => (joined /\ registered)
    /\ (mainPc \in {"check", "serving", "exited"} /\ regStatus # "STATUS_OK") => ~joined
    /\ (mainPc = "exited" /\ regStatus # "STATUS_OK") => exitStatus # 0

\* the vendor daemon exited on a duplicate registration
C8_Witness ==
    /\ mainPc = "exited"
    /\ mainVariant = "vendor"
    /\ regStatus = "STATUS_ALREADY_EXISTS"
    /\ exitStatus = 255
    /\ ~joined

====
